---- MODULE Spec2Model ----
(***************************************************************************)
(* Ghost-branch workflow engine of ViraithIDE                              *)
(* (src-tauri/src/git.rs, src-tauri/src/commands/git.rs).                  *)
(*                                                                         *)
(* The repository is modelled as its branch references, the commit graph, *)
(* HEAD and the working tree.  Each engine call                            *)
(* (create_ghost_branch, merge_to_main / merge_ghost_branch, get_diff,     *)
(* list_ghost_branches) is run by a process, one repository access per     *)
(* step, in the order of the source.                                       *)
(***************************************************************************)
EXTENDS Integers, Sequences, FiniteSets, TLC

VARIABLES
    refs,      \* local branches: branch name -> commit id
    commits,   \* commit graph: commits[i] = [parents, tree], i is the commit id
    head,      \* the branch name HEAD points at (refs/heads/<head>)
    worktree,  \* working tree (and index) contents: file -> content
    now,       \* wall clock: the last time read, in seconds
    pc,        \* per process: position inside the running call
    arg,       \* per process: the string argument of the running call
    loc,       \* per process: local variables of the running call
    op,        \* per process: the call it is running
    result,    \* per process: the value the call returned
    pre        \* per process: the repository as it was when the call started

vars == <<refs, commits, head, worktree, now, pc, op, arg, loc, result, pre>>
repo == <<refs, commits, head, worktree>>

-----------------------------------------------------------------------------
(* Bounds of the model, and the values calls and the user draw from *)

MaxCommits == 4
MaxTime == 2

Procs == {"p1", "p2"}
SeqProcs == {"p1"}

Files == {"a"}
Contents == {"x", "y", "z"}

CardIds == {"A", ""}

NoCommit == 0

-----------------------------------------------------------------------------
(* Strings *)

StartsWith(s, p) ==
    /\ Len(s) >= Len(p)
    /\ SubSeq(s, 1, Len(p)) = p

\* a looser test: any name with a slash in it
IsGhostLoose(name) == \E i \in 1..Len(name) : SubSeq(name, i, i) = "/"

\* name.starts_with("ghost/")
IsGhost(name) == StartsWith(name, "ghost/")

\* the name without its creation time
GhostNameNoTime(card_id, timestamp) == "ghost/" \o card_id

\* the name without the reserved prefix
GhostNameBare(card_id, timestamp) == card_id \o "/" \o ToString(timestamp)

\* format!("ghost/{}/{}", card_id, timestamp)
GhostName(card_id, timestamp) ==
    "ghost/" \o card_id \o "/" \o ToString(timestamp)

\* format!("refs/heads/{}", branch_name)
HeadsRef(branch_name) == "refs/heads/" \o branch_name

\* a reference name with an empty path component is refused by git
ValidRefName(name) ==
    /\ Len(name) > 0
    /\ SubSeq(name, Len(name), Len(name)) # "/"
    /\ \A i \in 1..(Len(name) - 1) : SubSeq(name, i, i + 1) # "//"

\* the hexadecimal object id of commit i, as a caller may spell it
Sha(i) == "c0ffee" \o ToString(i)

-----------------------------------------------------------------------------
(* The commit graph *)

CommitIds == 1..Len(commits)

RECURSIVE AncestorsFrom(_, _)
AncestorsFrom(frontier, seen) ==
    IF frontier \subseteq seen THEN seen
    ELSE LET new == frontier \ seen
             next == UNION {{commits[c].parents[i] : i \in 1..Len(commits[c].parents)}
                            : c \in new}
         IN AncestorsFrom(next, seen \cup new)

\* c and everything reachable from it through parents
Ancestors(c) == AncestorsFrom({c}, {})

\* the best common ancestors of two commits
MergeBases(c1, c2) ==
    LET common == Ancestors(c1) \cap Ancestors(c2)
    IN {b \in common : \A o \in common : o = b \/ b \notin Ancestors(o)}

TreeOf(c) == commits[c].tree

-----------------------------------------------------------------------------
(* Revision lookup, checkout and three-way merge, as the git library does them *)

StripPrefix(s, p) == SubSeq(s, Len(p) + 1, Len(s))

\* repo.revparse_single(spec): the commit spec names, or NoCommit
Revparse(spec) ==
    IF StartsWith(spec, "refs/heads/") /\ StripPrefix(spec, "refs/heads/") \in DOMAIN refs
        THEN refs[StripPrefix(spec, "refs/heads/")]
    ELSE IF spec \in DOMAIN refs THEN refs[spec]
    ELSE IF \E i \in CommitIds : Sha(i) = spec
        THEN CHOOSE i \in CommitIds : Sha(i) = spec
    ELSE NoCommit

\* repo.head(): HEAD resolves when the branch it names exists
HeadResolves == head \in DOMAIN refs
HeadCommit == refs[head]

\* the baseline of a checkout is the tree of HEAD (nothing when HEAD is unborn)
Baseline(f) == IF HeadResolves THEN TreeOf(HeadCommit)[f] ELSE "absent"

\* repo.checkout_tree(target, None), the safe strategy: a file that differs
\* between baseline and target is rewritten unless the working tree holds a
\* third content, which is a conflict and stops the checkout before any write
CheckoutConflicts(target) ==
    {f \in Files : /\ Baseline(f) # TreeOf(target)[f]
                   /\ worktree[f] \notin {Baseline(f), TreeOf(target)[f]}}

CheckoutTree(target) ==
    [f \in Files |-> IF Baseline(f) # TreeOf(target)[f]
                       THEN TreeOf(target)[f]
                       ELSE worktree[f]]

\* the tree a merge starts from: that of the merge base
BaseTree(c1, c2) == TreeOf(CHOOSE b \in MergeBases(c1, c2) : TRUE)

\* repo.merge_commits(ours, theirs): a file both sides changed, differently
MergeConflicts(ours, theirs) ==
    {f \in Files : /\ TreeOf(ours)[f] # TreeOf(theirs)[f]
                   /\ TreeOf(ours)[f] # BaseTree(ours, theirs)[f]
                   /\ TreeOf(theirs)[f] # BaseTree(ours, theirs)[f]}

\* index.has_conflicts()
HasConflicts(ours, theirs) == MergeConflicts(ours, theirs) # {}

\* index.write_tree_to(repo): each side's changes applied to the base
MergedTree(ours, theirs) ==
    [f \in Files |-> IF TreeOf(ours)[f] = BaseTree(ours, theirs)[f]
                       THEN TreeOf(theirs)[f]
                       ELSE TreeOf(ours)[f]]

-----------------------------------------------------------------------------
(* Calls *)

Ok(v) == [ok |-> TRUE, val |-> v]
Err(kind) == [ok |-> FALSE, val |-> kind]
NoResult == [ok |-> FALSE, val |-> "none"]

NoLoc == [commit |-> NoCommit, branch_name |-> "", obj |-> NoCommit,
          main |-> NoCommit, main_branch |-> "",
          ghost_commit |-> NoCommit, head_commit |-> NoCommit,
          tree |-> [f \in Files |-> "x"], branch |-> NoCommit,
          branch2 |-> "", tree1 |-> [f \in Files |-> "x"],
          tree2 |-> [f \in Files |-> "x"]]

Snapshot == [refs |-> refs, ncommits |-> Len(commits), head |-> head,
             worktree |-> worktree]
NoSnapshot == [refs |-> [n \in {} |-> NoCommit], ncommits |-> 0, head |-> "",
               worktree |-> [f \in Files |-> "x"]]

AllIdle == \A q \in Procs : pc[q] = "idle"

\* the call returns an error
Fail(p, kind) ==
    /\ pc' = [pc EXCEPT ![p] = "done"]
    /\ result' = [result EXCEPT ![p] = Err(kind)]

\* the call returns a value
Succeed(p, v) ==
    /\ pc' = [pc EXCEPT ![p] = "done"]
    /\ result' = [result EXCEPT ![p] = Ok(v)]

Goto(p, label) ==
    /\ pc' = [pc EXCEPT ![p] = label]
    /\ UNCHANGED result

Call(p, name, a, label) ==
    /\ pc[p] = "idle"
    /\ pc' = [pc EXCEPT ![p] = label]
    /\ op' = [op EXCEPT ![p] = name]
    /\ arg' = [arg EXCEPT ![p] = a]
    /\ pre' = [pre EXCEPT ![p] = Snapshot]
    /\ UNCHANGED <<repo, now, loc, result>>

-----------------------------------------------------------------------------
(* create_ghost_branch(card_id) *)

CreateCall(p, card_id) == Call(p, "create", card_id, "c_head")

\* let head = repo.head()?; let commit = head.peel_to_commit()?;
CHead(p) ==
    /\ pc[p] = "c_head"
    /\ IF HeadResolves
         THEN /\ loc' = [loc EXCEPT ![p].commit = HeadCommit]
              /\ Goto(p, "c_name")
         ELSE /\ Fail(p, "UnbornBranch")
              /\ UNCHANGED loc
    /\ UNCHANGED <<repo, now, op, arg, pre>>

\* let branch_name = format!("ghost/{}/{}", card_id, Utc::now().timestamp());
\* the clock never runs backwards: it reads the last time read, or a later one
CName(p) ==
    /\ pc[p] = "c_name"
    /\ \E timestamp \in now..MaxTime :
         /\ now' = timestamp
         /\ loc' = [loc EXCEPT ![p].branch_name = GhostName(arg[p], timestamp)]
    /\ Goto(p, "c_branch")
    /\ UNCHANGED <<repo, op, arg, pre>>

\* repo.branch(&branch_name, &commit, true): an existing branch is overwritten
CBranchForce(p) ==
    /\ pc[p] = "c_branch"
    /\ IF ~ValidRefName(loc[p].branch_name)
         THEN Fail(p, "InvalidSpec") /\ UNCHANGED refs
         ELSE /\ refs' = (loc[p].branch_name :> loc[p].commit) @@ refs
              /\ Goto(p, "c_revparse")
    /\ UNCHANGED <<commits, head, worktree, now, op, arg, loc, pre>>

\* repo.branch(&branch_name, &commit, false)?   (false: never overwrite)
CBranch(p) ==
    /\ pc[p] = "c_branch"
    /\ IF ~ValidRefName(loc[p].branch_name)
         THEN Fail(p, "InvalidSpec") /\ UNCHANGED refs
       ELSE IF loc[p].branch_name \in DOMAIN refs
         THEN Fail(p, "Exists") /\ UNCHANGED refs
       ELSE /\ refs' = (loc[p].branch_name :> loc[p].commit) @@ refs
            /\ Goto(p, "c_revparse")
    /\ UNCHANGED <<commits, head, worktree, now, op, arg, loc, pre>>

\* let obj = repo.revparse_single(&format!("refs/heads/{}", branch_name))?;
CRevparse(p) ==
    /\ pc[p] = "c_revparse"
    /\ IF Revparse(HeadsRef(loc[p].branch_name)) = NoCommit
         THEN Fail(p, "NotFound") /\ UNCHANGED loc
         ELSE /\ loc' = [loc EXCEPT ![p].obj = Revparse(HeadsRef(loc[p].branch_name))]
              /\ Goto(p, "c_checkout")
    /\ UNCHANGED <<repo, now, op, arg, pre>>

\* repo.checkout_tree(&obj, None)?;
CCheckout(p) ==
    /\ pc[p] = "c_checkout"
    /\ IF CheckoutConflicts(loc[p].obj) # {}
         THEN Fail(p, "CheckoutConflict") /\ UNCHANGED worktree
         ELSE /\ worktree' = CheckoutTree(loc[p].obj)
              /\ Goto(p, "c_sethead")
    /\ UNCHANGED <<refs, commits, head, now, op, arg, loc, pre>>

\* repo.set_head(&format!("refs/heads/{}", branch_name))?;  Ok(branch_name)
CSetHead(p) ==
    /\ pc[p] = "c_sethead"
    /\ head' = loc[p].branch_name
    /\ Succeed(p, loc[p].branch_name)
    /\ UNCHANGED <<refs, commits, worktree, now, op, arg, loc, pre>>

\* .map_err(|e| e.to_string())? after checkout_tree: the library reports an
\* error of the file system (the index is locked by another git process, a
\* file cannot be written) and create returns it
CCheckoutFault(p) ==
    /\ pc[p] = "c_checkout"
    /\ Fail(p, "Locked")
    /\ UNCHANGED <<repo, now, op, arg, loc, pre>>

\* .map_err(|e| e.to_string())? after set_head: HEAD cannot be rewritten
CSetHeadFault(p) ==
    /\ pc[p] = "c_sethead"
    /\ Fail(p, "HeadLocked")
    /\ UNCHANGED <<repo, now, op, arg, loc, pre>>

-----------------------------------------------------------------------------
(* merge_to_main(ghost_branch) / merge_ghost_branch(repo_path, ghost_branch) *)

MergesRunning == {q \in Procs : pc[q] \notin {"idle", "done"} /\ op[q] = "merge"}

\* what a caller may pass as ghost_branch: any branch, a commit id,
\* a name that resolves to nothing
MergeArgs == DOMAIN refs \cup {Sha(1), "ghost/none/0"}

MergeCall(p, ghost_branch) ==
    /\ Len(commits) + Cardinality(MergesRunning) < MaxCommits
    /\ Call(p, "merge", ghost_branch, "m_resolve")

\* let main = repo.revparse_single("main")
\*     .or_else(|_| repo.revparse_single("master"))?;
ResolveTrunk ==
    IF Revparse("main") # NoCommit THEN Revparse("main") ELSE Revparse("master")

MResolve(p) ==
    /\ pc[p] = "m_resolve"
    /\ IF ResolveTrunk = NoCommit
         THEN Fail(p, "NotFound") /\ UNCHANGED loc
         ELSE /\ loc' = [loc EXCEPT ![p].main = ResolveTrunk]
              /\ Goto(p, "m_checkout")
    /\ UNCHANGED <<repo, now, op, arg, pre>>

\* repo.checkout_tree(&main, None)?;
MCheckout(p) ==
    /\ pc[p] = "m_checkout"
    /\ IF CheckoutConflicts(loc[p].main) # {}
         THEN Fail(p, "CheckoutConflict") /\ UNCHANGED worktree
         ELSE /\ worktree' = CheckoutTree(loc[p].main)
              /\ Goto(p, "m_probe")
    /\ UNCHANGED <<refs, commits, head, now, op, arg, loc, pre>>

\* the probe the other way round: master preferred
TrunkNameMasterFirst == IF Revparse("master") # NoCommit THEN "master" ELSE "main"

\* let main_branch = if repo.revparse_single("main").is_ok() { "main" } else { "master" };
TrunkName == IF Revparse("main") # NoCommit THEN "main" ELSE "master"

MProbe(p) ==
    /\ pc[p] = "m_probe"
    /\ loc' = [loc EXCEPT ![p].main_branch = TrunkName]
    /\ Goto(p, "m_sethead")
    /\ UNCHANGED <<repo, now, op, arg, pre>>

\* the merge going on without HEAD moved to the trunk
MSetHeadSkipped(p) ==
    /\ pc[p] = "m_sethead"
    /\ Goto(p, "m_ghost")
    /\ UNCHANGED <<repo, now, op, arg, loc, pre>>

\* repo.set_head(&format!("refs/heads/{}", main_branch))?;
MSetHead(p) ==
    /\ pc[p] = "m_sethead"
    /\ head' = loc[p].main_branch
    /\ Goto(p, "m_ghost")
    /\ UNCHANGED <<refs, commits, worktree, now, op, arg, loc, pre>>

\* an unresolvable ghost branch reported as a merge conflict
MGhostAsConflict(p) ==
    /\ pc[p] = "m_ghost"
    /\ IF Revparse(arg[p]) = NoCommit
         THEN Fail(p, "MergeConflict") /\ UNCHANGED loc
         ELSE /\ loc' = [loc EXCEPT ![p].ghost_commit = Revparse(arg[p])]
              /\ Goto(p, "m_head")
    /\ UNCHANGED <<repo, now, op, arg, pre>>

\* let ghost_commit = repo.revparse_single(ghost_branch)?.peel_to_commit()?;
MGhost(p) ==
    /\ pc[p] = "m_ghost"
    /\ IF Revparse(arg[p]) = NoCommit
         THEN Fail(p, "NotFound") /\ UNCHANGED loc
         ELSE /\ loc' = [loc EXCEPT ![p].ghost_commit = Revparse(arg[p])]
              /\ Goto(p, "m_head")
    /\ UNCHANGED <<repo, now, op, arg, pre>>

\* let head_commit = repo.head()?.peel_to_commit()?;
MHead(p) ==
    /\ pc[p] = "m_head"
    /\ IF HeadResolves
         THEN /\ loc' = [loc EXCEPT ![p].head_commit = HeadCommit]
              /\ Goto(p, "m_merge")
         ELSE /\ Fail(p, "UnbornBranch")
              /\ UNCHANGED loc
    /\ UNCHANGED <<repo, now, op, arg, pre>>

\* the merge without the has_conflicts() test
MMergeNoCheck(p) ==
    /\ pc[p] = "m_merge"
    /\ loc' = [loc EXCEPT ![p].tree =
                  MergedTree(loc[p].head_commit, loc[p].ghost_commit)]
    /\ Goto(p, "m_commit")
    /\ UNCHANGED <<repo, now, op, arg, pre>>

\* let mut index = repo.merge_commits(&head_commit, &ghost_commit, None)?;
\* if index.has_conflicts() { return Err("Merge conflicts detected ...") }
\* let tree_id = index.write_tree_to(&repo)?;
MMerge(p) ==
    /\ pc[p] = "m_merge"
    /\ IF HasConflicts(loc[p].head_commit, loc[p].ghost_commit)
         THEN Fail(p, "MergeConflict") /\ UNCHANGED loc
         ELSE /\ loc' = [loc EXCEPT ![p].tree =
                            MergedTree(loc[p].head_commit, loc[p].ghost_commit)]
              /\ Goto(p, "m_commit")
    /\ UNCHANGED <<repo, now, op, arg, pre>>

\* &[&ghost_commit, &head_commit]
MergeParentsSwapped(head_commit, ghost_commit) == <<ghost_commit, head_commit>>

\* &[&head_commit, &ghost_commit]
MergeParents(head_commit, ghost_commit) == <<head_commit, ghost_commit>>

\* the ghost branch deleted without the commit having been made
MCommitSkipped(p) ==
    /\ pc[p] = "m_commit"
    /\ Goto(p, "m_find")
    /\ UNCHANGED <<repo, now, op, arg, loc, pre>>

\* the commit written, and the branch moved, whatever the branch points at
MCommitNoCheck(p) ==
    /\ pc[p] = "m_commit"
    /\ commits' = Append(commits,
           [parents |-> MergeParents(loc[p].head_commit, loc[p].ghost_commit),
            tree |-> loc[p].tree])
    /\ refs' = (head :> (Len(commits) + 1)) @@ refs
    /\ Goto(p, "m_find")
    /\ UNCHANGED <<head, worktree, now, op, arg, loc, pre>>

\* repo.commit(Some("HEAD"), .., &tree, &[&head_commit, &ghost_commit])?;
\* the library refuses when the branch HEAD names is not at the first parent;
\* otherwise it writes the commit and moves that branch to it
MCommit(p) ==
    /\ pc[p] = "m_commit"
    /\ IF HeadResolves /\ HeadCommit # loc[p].head_commit
         THEN Fail(p, "Modified") /\ UNCHANGED <<refs, commits>>
         ELSE /\ commits' = Append(commits,
                    [parents |-> MergeParents(loc[p].head_commit, loc[p].ghost_commit),
                     tree |-> loc[p].tree])
              /\ refs' = (head :> (Len(commits) + 1)) @@ refs
              /\ Goto(p, "m_find")
    /\ UNCHANGED <<head, worktree, now, op, arg, loc, pre>>

\* let mut branch = repo.find_branch(ghost_branch, BranchType::Local)?;
MFind(p) ==
    /\ pc[p] = "m_find"
    /\ IF arg[p] \in DOMAIN refs
         THEN /\ loc' = [loc EXCEPT ![p].branch = refs[arg[p]]]
              /\ Goto(p, "m_delete")
         ELSE /\ Fail(p, "NotFound")
              /\ UNCHANGED loc
    /\ UNCHANGED <<repo, now, op, arg, pre>>

\* the delete without the test for HEAD
MDeleteAnyway(p) ==
    /\ pc[p] = "m_delete"
    /\ IF arg[p] \notin DOMAIN refs
         THEN Fail(p, "NotFound") /\ UNCHANGED refs
       ELSE IF refs[arg[p]] # loc[p].branch
         THEN Fail(p, "Modified") /\ UNCHANGED refs
       ELSE /\ refs' = [n \in DOMAIN refs \ {arg[p]} |-> refs[n]]
            /\ Succeed(p, "unit")
    /\ UNCHANGED <<commits, head, worktree, now, op, arg, loc, pre>>

\* branch.delete()?;  Ok(())
\* the library refuses to delete the branch HEAD names, and one that was
\* moved or removed since it was looked up
MDelete(p) ==
    /\ pc[p] = "m_delete"
    /\ IF arg[p] = head
         THEN Fail(p, "IsHead") /\ UNCHANGED refs
       ELSE IF arg[p] \notin DOMAIN refs
         THEN Fail(p, "NotFound") /\ UNCHANGED refs
       ELSE IF refs[arg[p]] # loc[p].branch
         THEN Fail(p, "Modified") /\ UNCHANGED refs
       ELSE /\ refs' = [n \in DOMAIN refs \ {arg[p]} |-> refs[n]]
            /\ Succeed(p, "unit")
    /\ UNCHANGED <<commits, head, worktree, now, op, arg, loc, pre>>

-----------------------------------------------------------------------------
(* get_diff(branch1, branch2) / get_branch_diff(repo_path, branch1, branch2) *)

\* what a caller may pass as a revision: any branch,
\* a name that resolves to nothing
DiffArgs == DOMAIN refs \cup {"ghost/none/0"}

DiffCall(p, branch1, branch2) ==
    /\ pc[p] = "idle"
    /\ pc' = [pc EXCEPT ![p] = "d_tree1"]
    /\ op' = [op EXCEPT ![p] = "diff"]
    /\ arg' = [arg EXCEPT ![p] = branch1]
    /\ loc' = [loc EXCEPT ![p].branch2 = branch2]
    /\ pre' = [pre EXCEPT ![p] = Snapshot]
    /\ UNCHANGED <<repo, now, result>>

\* let tree1 = repo.revparse_single(branch1)?.peel_to_tree()?;
DTree1(p) ==
    /\ pc[p] = "d_tree1"
    /\ IF Revparse(arg[p]) = NoCommit
         THEN Fail(p, "NotFound") /\ UNCHANGED loc
         ELSE /\ loc' = [loc EXCEPT ![p].tree1 = TreeOf(Revparse(arg[p]))]
              /\ Goto(p, "d_tree2")
    /\ UNCHANGED <<repo, now, op, arg, pre>>

\* let tree2 = repo.revparse_single(branch2)?.peel_to_tree()?;
DTree2(p) ==
    /\ pc[p] = "d_tree2"
    /\ IF Revparse(loc[p].branch2) = NoCommit
         THEN Fail(p, "NotFound") /\ UNCHANGED loc
         ELSE /\ loc' = [loc EXCEPT ![p].tree2 = TreeOf(Revparse(loc[p].branch2))]
              /\ Goto(p, "d_diff")
    /\ UNCHANGED <<repo, now, op, arg, pre>>

\* the lines of one changed file as diff.print hands them over: the file
\* header, the hunk header, the old line, the new line; only the content of
\* each line is kept (line.content()), not its origin mark
FilePatch(f, old, new) ==
    "diff --git a/" \o f \o " b/" \o f \o "\n"
    \o "--- a/" \o f \o "\n" \o "+++ b/" \o f \o "\n"
    \o "@@ -1 +1 @@\n" \o old \o "\n" \o new \o "\n"

\* a patch that names every file, changed or not
RECURSIVE PatchTextAllFiles(_, _, _)
PatchTextAllFiles(fs, tree1, tree2) ==
    IF fs = {} THEN ""
    ELSE LET f == CHOOSE g \in fs : TRUE
         IN FilePatch(f, tree1[f], tree2[f])
            \o PatchTextAllFiles(fs \ {f}, tree1, tree2)

\* repo.diff_tree_to_tree(Some(&tree1), Some(&tree2), None) printed as a
\* patch: one delta per file whose content differs between the two trees
RECURSIVE PatchText(_, _, _)
PatchText(fs, tree1, tree2) ==
    IF fs = {} THEN ""
    ELSE LET f == CHOOSE g \in fs : TRUE
         IN (IF tree1[f] = tree2[f] THEN "" ELSE FilePatch(f, tree1[f], tree2[f]))
            \o PatchText(fs \ {f}, tree1, tree2)

\* diff.print(DiffFormat::Patch, ..)?;  Ok(diff_text)
DDiff(p) ==
    /\ pc[p] = "d_diff"
    /\ Succeed(p, PatchText(Files, loc[p].tree1, loc[p].tree2))
    /\ UNCHANGED <<repo, now, op, arg, loc, pre>>

-----------------------------------------------------------------------------
(* list_ghost_branches() *)

ListCall(p) == Call(p, "list", "", "l_list")

\* branches(Some(BranchType::Local)) ... .filter(|name| name.starts_with("ghost/"))
GhostBranches == {n \in DOMAIN refs : IsGhost(n)}

LList(p) ==
    /\ pc[p] = "l_list"
    /\ Succeed(p, GhostBranches)
    /\ UNCHANGED <<repo, now, op, arg, loc, pre>>

-----------------------------------------------------------------------------
(* The commands of commands/git.rs: each opens the repository at           *)
(* repo_path, then runs its own copy of the statements.  A local of a      *)
(* command is kept in the field of loc that holds the local of GhostMode   *)
(* at the same place (main_branch_name in main_branch).                    *)

\* create_ghost_branch(repo_path, card_id): Repository::open(&repo_path)?
CmdCreateCall(p, card_id) == Call(p, "create", card_id, "c_head")

\* let head = repo.head()?; let commit = head.peel_to_commit()?;
CmdCHead(p) ==
    /\ pc[p] = "c_head"
    /\ IF head \in DOMAIN refs
         THEN /\ loc' = [loc EXCEPT ![p].commit = refs[head]]
              /\ Goto(p, "c_name")
         ELSE /\ Fail(p, "UnbornBranch")
              /\ UNCHANGED loc
    /\ UNCHANGED <<repo, now, op, arg, pre>>

\* let timestamp = chrono::Utc::now().timestamp();
\* let branch_name = format!("ghost/{}/{}", card_id, timestamp);
CmdCName(p) ==
    /\ pc[p] = "c_name"
    /\ \E timestamp \in now..MaxTime :
         /\ now' = timestamp
         /\ loc' = [loc EXCEPT ![p].branch_name =
                        "ghost/" \o arg[p] \o "/" \o ToString(timestamp)]
    /\ Goto(p, "c_branch")
    /\ UNCHANGED <<repo, op, arg, pre>>

\* repo.branch(&branch_name, &commit, false)?;
CmdCBranch(p) ==
    /\ pc[p] = "c_branch"
    /\ IF ~ValidRefName(loc[p].branch_name)
         THEN Fail(p, "InvalidSpec") /\ UNCHANGED refs
       ELSE IF loc[p].branch_name \in DOMAIN refs
         THEN Fail(p, "Exists") /\ UNCHANGED refs
       ELSE /\ refs' = (loc[p].branch_name :> loc[p].commit) @@ refs
            /\ Goto(p, "c_revparse")
    /\ UNCHANGED <<commits, head, worktree, now, op, arg, loc, pre>>

\* let obj = repo.revparse_single(&format!("refs/heads/{}", branch_name))?;
CmdCRevparse(p) ==
    /\ pc[p] = "c_revparse"
    /\ IF Revparse("refs/heads/" \o loc[p].branch_name) = NoCommit
         THEN Fail(p, "NotFound") /\ UNCHANGED loc
         ELSE /\ loc' = [loc EXCEPT ![p].obj =
                            Revparse("refs/heads/" \o loc[p].branch_name)]
              /\ Goto(p, "c_checkout")
    /\ UNCHANGED <<repo, now, op, arg, pre>>

\* repo.checkout_tree(&obj, None)?;
CmdCCheckout(p) ==
    /\ pc[p] = "c_checkout"
    /\ IF CheckoutConflicts(loc[p].obj) # {}
         THEN Fail(p, "CheckoutConflict") /\ UNCHANGED worktree
         ELSE /\ worktree' = CheckoutTree(loc[p].obj)
              /\ Goto(p, "c_sethead")
    /\ UNCHANGED <<refs, commits, head, now, op, arg, loc, pre>>

\* repo.set_head(&format!("refs/heads/{}", branch_name))?;  Ok(branch_name)
CmdCSetHead(p) ==
    /\ pc[p] = "c_sethead"
    /\ head' = loc[p].branch_name
    /\ Succeed(p, loc[p].branch_name)
    /\ UNCHANGED <<refs, commits, worktree, now, op, arg, loc, pre>>

\* get_branch_diff(repo_path, branch1, branch2): Repository::open(&repo_path)?
CmdDiffCall(p, branch1, branch2) ==
    /\ pc[p] = "idle"
    /\ pc' = [pc EXCEPT ![p] = "d_tree1"]
    /\ op' = [op EXCEPT ![p] = "diff"]
    /\ arg' = [arg EXCEPT ![p] = branch1]
    /\ loc' = [loc EXCEPT ![p].branch2 = branch2]
    /\ pre' = [pre EXCEPT ![p] = Snapshot]
    /\ UNCHANGED <<repo, now, result>>

\* let tree1 = repo.revparse_single(&branch1)?.peel_to_tree()?;
CmdDTree1(p) ==
    /\ pc[p] = "d_tree1"
    /\ IF Revparse(arg[p]) = NoCommit
         THEN Fail(p, "NotFound") /\ UNCHANGED loc
         ELSE /\ loc' = [loc EXCEPT ![p].tree1 = TreeOf(Revparse(arg[p]))]
              /\ Goto(p, "d_tree2")
    /\ UNCHANGED <<repo, now, op, arg, pre>>

\* let tree2 = repo.revparse_single(&branch2)?.peel_to_tree()?;
CmdDTree2(p) ==
    /\ pc[p] = "d_tree2"
    /\ IF Revparse(loc[p].branch2) = NoCommit
         THEN Fail(p, "NotFound") /\ UNCHANGED loc
         ELSE /\ loc' = [loc EXCEPT ![p].tree2 = TreeOf(Revparse(loc[p].branch2))]
              /\ Goto(p, "d_diff")
    /\ UNCHANGED <<repo, now, op, arg, pre>>

\* repo.diff_tree_to_tree(Some(&tree1), Some(&tree2), None)?; diff.print(..)?;
\* Ok(diff_text)
CmdDDiff(p) ==
    /\ pc[p] = "d_diff"
    /\ Succeed(p, PatchText(Files, loc[p].tree1, loc[p].tree2))
    /\ UNCHANGED <<repo, now, op, arg, loc, pre>>

\* merge_ghost_branch(repo_path, ghost_branch): Repository::open(&repo_path)?
CmdMergeCall(p, ghost_branch) ==
    /\ Len(commits) + Cardinality(MergesRunning) < MaxCommits
    /\ Call(p, "merge", ghost_branch, "m_resolve")

\* let main = repo.revparse_single("main")
\*     .or_else(|_| repo.revparse_single("master"))?;
CmdMResolve(p) ==
    /\ pc[p] = "m_resolve"
    /\ IF Revparse("main") # NoCommit
         THEN /\ loc' = [loc EXCEPT ![p].main = Revparse("main")]
              /\ Goto(p, "m_checkout")
       ELSE IF Revparse("master") # NoCommit
         THEN /\ loc' = [loc EXCEPT ![p].main = Revparse("master")]
              /\ Goto(p, "m_checkout")
       ELSE Fail(p, "NotFound") /\ UNCHANGED loc
    /\ UNCHANGED <<repo, now, op, arg, pre>>

\* repo.checkout_tree(&main, None)?;
CmdMCheckout(p) ==
    /\ pc[p] = "m_checkout"
    /\ IF CheckoutConflicts(loc[p].main) # {}
         THEN Fail(p, "CheckoutConflict") /\ UNCHANGED worktree
         ELSE /\ worktree' = CheckoutTree(loc[p].main)
              /\ Goto(p, "m_probe")
    /\ UNCHANGED <<refs, commits, head, now, op, arg, loc, pre>>

\* let main_branch_name =
\*     if repo.revparse_single("main").is_ok() { "main" } else { "master" };
CmdMProbe(p) ==
    /\ pc[p] = "m_probe"
    /\ loc' = [loc EXCEPT ![p].main_branch =
                  IF Revparse("main") # NoCommit THEN "main" ELSE "master"]
    /\ Goto(p, "m_sethead")
    /\ UNCHANGED <<repo, now, op, arg, pre>>

\* repo.set_head(&format!("refs/heads/{}", main_branch_name))?;
CmdMSetHead(p) ==
    /\ pc[p] = "m_sethead"
    /\ head' = loc[p].main_branch
    /\ Goto(p, "m_ghost")
    /\ UNCHANGED <<refs, commits, worktree, now, op, arg, loc, pre>>

\* let ghost_commit = repo.revparse_single(&ghost_branch)?.peel_to_commit()?;
CmdMGhost(p) ==
    /\ pc[p] = "m_ghost"
    /\ IF Revparse(arg[p]) = NoCommit
         THEN Fail(p, "NotFound") /\ UNCHANGED loc
         ELSE /\ loc' = [loc EXCEPT ![p].ghost_commit = Revparse(arg[p])]
              /\ Goto(p, "m_head")
    /\ UNCHANGED <<repo, now, op, arg, pre>>

\* let head_commit = repo.head()?.peel_to_commit()?;
CmdMHead(p) ==
    /\ pc[p] = "m_head"
    /\ IF head \in DOMAIN refs
         THEN /\ loc' = [loc EXCEPT ![p].head_commit = refs[head]]
              /\ Goto(p, "m_merge")
         ELSE /\ Fail(p, "UnbornBranch")
              /\ UNCHANGED loc
    /\ UNCHANGED <<repo, now, op, arg, pre>>

\* let mut index = repo.merge_commits(&head_commit, &ghost_commit, None)?;
\* if index.has_conflicts() { return Err("Merge conflicts detected ...") }
\* let tree_id = index.write_tree_to(&repo)?;
CmdMMerge(p) ==
    /\ pc[p] = "m_merge"
    /\ IF HasConflicts(loc[p].head_commit, loc[p].ghost_commit)
         THEN Fail(p, "MergeConflict") /\ UNCHANGED loc
         ELSE /\ loc' = [loc EXCEPT ![p].tree =
                            MergedTree(loc[p].head_commit, loc[p].ghost_commit)]
              /\ Goto(p, "m_commit")
    /\ UNCHANGED <<repo, now, op, arg, pre>>

\* repo.commit(Some("HEAD"), .., &tree, &[&head_commit, &ghost_commit])?;
CmdMCommit(p) ==
    /\ pc[p] = "m_commit"
    /\ IF head \in DOMAIN refs /\ refs[head] # loc[p].head_commit
         THEN Fail(p, "Modified") /\ UNCHANGED <<refs, commits>>
         ELSE /\ commits' = Append(commits,
                    [parents |-> <<loc[p].head_commit, loc[p].ghost_commit>>,
                     tree |-> loc[p].tree])
              /\ refs' = (head :> (Len(commits) + 1)) @@ refs
              /\ Goto(p, "m_find")
    /\ UNCHANGED <<head, worktree, now, op, arg, loc, pre>>

\* let mut branch = repo.find_branch(&ghost_branch, BranchType::Local)?;
CmdMFind(p) ==
    /\ pc[p] = "m_find"
    /\ IF arg[p] \in DOMAIN refs
         THEN /\ loc' = [loc EXCEPT ![p].branch = refs[arg[p]]]
              /\ Goto(p, "m_delete")
         ELSE /\ Fail(p, "NotFound")
              /\ UNCHANGED loc
    /\ UNCHANGED <<repo, now, op, arg, pre>>

\* branch.delete()?;  Ok(())
CmdMDelete(p) ==
    /\ pc[p] = "m_delete"
    /\ IF arg[p] = head
         THEN Fail(p, "IsHead") /\ UNCHANGED refs
       ELSE IF arg[p] \notin DOMAIN refs
         THEN Fail(p, "NotFound") /\ UNCHANGED refs
       ELSE IF refs[arg[p]] # loc[p].branch
         THEN Fail(p, "Modified") /\ UNCHANGED refs
       ELSE /\ refs' = [n \in DOMAIN refs \ {arg[p]} |-> refs[n]]
            /\ Succeed(p, "unit")
    /\ UNCHANGED <<commits, head, worktree, now, op, arg, loc, pre>>

\* get_branches(repo_path): Repository::open(&repo_path)?
GetBranchesCall(p) == Call(p, "branches", "", "b_list")

\* GitBranch { name, is_head, is_ghost, last_commit } of one local branch;
\* last_commit, the message of the tip commit, is given as that commit
GitBranch(name) ==
    [name |-> name,
     is_head |-> (head = name),
     is_ghost |-> StartsWith(name, "ghost/"),
     last_commit |-> refs[name]]

\* for branch in repo.branches(Some(BranchType::Local))? { result.push(..) }
\* Ok(result)
GetBranches(p) ==
    /\ pc[p] = "b_list"
    /\ Succeed(p, {GitBranch(name) : name \in DOMAIN refs})
    /\ UNCHANGED <<repo, now, op, arg, loc, pre>>

\* a command is issued, or a running command takes its next step
CmdWork(p) ==
    \/ \E card_id \in CardIds : CmdCreateCall(p, card_id)
    \/ CmdCHead(p) \/ CmdCName(p) \/ CmdCBranch(p) \/ CmdCRevparse(p)
    \/ CmdCCheckout(p) \/ CmdCSetHead(p)
    \/ \E ghost_branch \in MergeArgs : CmdMergeCall(p, ghost_branch)
    \/ CmdMResolve(p) \/ CmdMCheckout(p) \/ CmdMProbe(p) \/ CmdMSetHead(p)
    \/ CmdMGhost(p) \/ CmdMHead(p) \/ CmdMMerge(p) \/ CmdMCommit(p)
    \/ CmdMFind(p) \/ CmdMDelete(p)
    \/ \E branch1 \in DiffArgs, branch2 \in DiffArgs : CmdDiffCall(p, branch1, branch2)
    \/ CmdDTree1(p) \/ CmdDTree2(p) \/ CmdDDiff(p)
    \/ GetBranchesCall(p) \/ GetBranches(p)

-----------------------------------------------------------------------------
(* The caller takes the result; the user *)

Return(p) ==
    /\ pc[p] = "done"
    /\ pc' = [pc EXCEPT ![p] = "idle"]
    /\ op' = [op EXCEPT ![p] = "none"]
    /\ arg' = [arg EXCEPT ![p] = ""]
    /\ loc' = [loc EXCEPT ![p] = NoLoc]
    /\ result' = [result EXCEPT ![p] = NoResult]
    /\ pre' = [pre EXCEPT ![p] = NoSnapshot]
    /\ UNCHANGED <<repo, now>>

\* the user edits one file and commits on the checked-out branch
UserCommit(f, v) ==
    /\ AllIdle
    /\ HeadResolves
    /\ Len(commits) < MaxCommits
    /\ v # worktree[f]
    /\ worktree' = [worktree EXCEPT ![f] = v]
    /\ commits' = Append(commits, [parents |-> <<HeadCommit>>,
                                   tree |-> [worktree EXCEPT ![f] = v]])
    /\ refs' = [refs EXCEPT ![head] = Len(commits) + 1]
    /\ UNCHANGED <<head, now, pc, op, arg, loc, result, pre>>

-----------------------------------------------------------------------------
(* Specifications *)

RootTree == [f \in Files |-> "x"]

\* the branches a repository may start with, all at the root commit
InitBranches == {{"main", "feature/x"}, {"master", "feature/x"},
                 {"main", "master"}, {"feature/x"}}

Init ==
    /\ \E bs \in InitBranches :
         /\ refs = [n \in bs |-> 1]
         /\ head \in bs
    /\ commits = <<[parents |-> <<>>, tree |-> RootTree]>>
    /\ worktree = RootTree
    /\ now = 1
    /\ pc = [p \in Procs |-> "idle"]
    /\ op = [p \in Procs |-> "none"]
    /\ arg = [p \in Procs |-> ""]
    /\ loc = [p \in Procs |-> NoLoc]
    /\ result = [p \in Procs |-> NoResult]
    /\ pre = [p \in Procs |-> NoSnapshot]

\* a call is issued, or a running call takes its next step
Work(p) ==
    \/ \E card_id \in CardIds : CreateCall(p, card_id)
    \/ CHead(p) \/ CName(p) \/ CBranch(p) \/ CRevparse(p) \/ CCheckout(p) \/ CSetHead(p)
    \/ \E ghost_branch \in MergeArgs : MergeCall(p, ghost_branch)
    \/ MResolve(p) \/ MCheckout(p) \/ MProbe(p) \/ MSetHead(p) \/ MGhost(p)
    \/ MHead(p) \/ MMerge(p) \/ MCommit(p) \/ MFind(p) \/ MDelete(p)
    \/ ListCall(p) \/ LList(p)

Step(p) == Work(p) \/ Return(p)

Env == \E f \in Files, v \in Contents : UserCommit(f, v)

\* one call at a time: the caller awaits each call before the next
Next ==
    \/ \E p \in SeqProcs : Step(p)
    \/ Env

Spec == Init /\ [][Next]_vars

\* A merge once called runs to its return: merge_to_main is straight-line
\* code, every library call in it returns, and the runtime runs a command
\* to completion
MergeSteps(p) ==
    \/ MResolve(p) \/ MCheckout(p) \/ MProbe(p) \/ MSetHead(p) \/ MGhost(p)
    \/ MHead(p) \/ MMerge(p) \/ MCommit(p) \/ MFind(p) \/ MDelete(p)

SpecLive == Init /\ [][Next]_vars /\ \A p \in SeqProcs : WF_vars(MergeSteps(p))

\* The same on a file system that may fail a write of create: the error
\* returns the source has after checkout_tree and set_head are taken
NextFault ==
    \/ \E p \in SeqProcs : Step(p)
    \/ \E p \in SeqProcs : CCheckoutFault(p) \/ CSetHeadFault(p)
    \/ Env

SpecFault == Init /\ [][NextFault]_vars

\* The same with the diff call among the calls issued.  get_diff only reads
\* the repository, so the calls above behave the same with it and without.
DiffWork(p) ==
    \/ \E branch1 \in DiffArgs, branch2 \in DiffArgs : DiffCall(p, branch1, branch2)
    \/ DTree1(p) \/ DTree2(p) \/ DDiff(p)

NextDiff ==
    \/ \E p \in SeqProcs : Step(p)
    \/ \E p \in SeqProcs : DiffWork(p)
    \/ Env

SpecDiff == Init /\ [][NextDiff]_vars

\* Both implementations in use on one repository, one call at a time.  At
\* each statement of a call either copy of that statement may run, which
\* covers a call run by GhostMode (git.rs) throughout and a call run by the
\* command (commands/git.rs) throughout.
NextEither ==
    \/ \E p \in SeqProcs : Step(p)
    \/ \E p \in SeqProcs : DiffWork(p)
    \/ \E p \in SeqProcs : CmdWork(p)
    \/ Env

SpecEither == Init /\ [][NextEither]_vars

\* Calls as the application issues them: asynchronous commands with nothing
\* ordering them and no lock on the repository, here two at once, on a
\* repository (one the calls above lead to) that holds a
\* trunk, a branch of the user and ghost branches with a commit of their own
GhostTree == [f \in Files |-> "y"]

InitConc ==
    /\ commits = <<[parents |-> <<>>, tree |-> RootTree],
                   [parents |-> <<1>>, tree |-> GhostTree]>>
    /\ \/ /\ refs = ("main" :> 1) @@ ("feature/x" :> 1) @@ ("ghost/A/1" :> 2)
                    @@ ("ghost/A/2" :> 2)
          /\ head = "ghost/A/2"
          /\ now = 2
       \/ /\ refs = ("main" :> 1) @@ ("feature/x" :> 1) @@ ("ghost/A/1" :> 2)
          /\ head \in {"ghost/A/1", "main"}
          /\ now = 1
       \/ /\ refs = ("main" :> 1) @@ ("feature/x" :> 1) @@ ("ghost/A/1" :> 1)
                    @@ ("ghost/A/2" :> 2)
          /\ head = "ghost/A/2"
          /\ now = 2
    /\ worktree = TreeOf(HeadCommit)
    /\ pc = [p \in Procs |-> "idle"]
    /\ op = [p \in Procs |-> "none"]
    /\ arg = [p \in Procs |-> ""]
    /\ loc = [p \in Procs |-> NoLoc]
    /\ result = [p \in Procs |-> NoResult]
    /\ pre = [p \in Procs |-> NoSnapshot]

\* each of the two commands is one call
NextConc == \E p \in Procs : Work(p)

SpecConc == InitConc /\ [][NextConc]_vars

-----------------------------------------------------------------------------
(* Sanity of the model *)

TypeOK ==
    /\ DOMAIN refs \subseteq STRING
    /\ \A n \in DOMAIN refs : refs[n] \in CommitIds
    /\ \A c \in CommitIds : \A i \in 1..Len(commits[c].parents) : commits[c].parents[i] < c
    /\ now \in 1..MaxTime
    /\ Len(commits) <= MaxCommits

-----------------------------------------------------------------------------
(* What a returned call is compared with: the repository when it started *)

Returned(p, name) == pc[p] = "done" /\ op[p] = name

\* the trunk as the repository had it when the call started
PreHasTrunk(p) == "main" \in DOMAIN pre[p].refs \/ "master" \in DOMAIN pre[p].refs
PreTrunk(p) == IF "main" \in DOMAIN pre[p].refs THEN "main" ELSE "master"
PreTrunkTip(p) == pre[p].refs[PreTrunk(p)]

\* the argument named a branch when the call started
PreBranch(p) == arg[p] \in DOMAIN pre[p].refs
PreBranchTip(p) == pre[p].refs[arg[p]]

\* the argument resolved to no revision when the call started
PreUnresolvable(p) ==
    /\ arg[p] \notin DOMAIN pre[p].refs
    /\ ~\E n \in DOMAIN pre[p].refs : arg[p] = "refs/heads/" \o n
    /\ ~\E i \in 1..pre[p].ncommits : arg[p] = Sha(i)

\* a file the two tips both changed since their common ancestor, differently
TipsConflict(ours, theirs) ==
    \E b \in MergeBases(ours, theirs) : \E f \in Files :
        /\ commits[ours].tree[f] # commits[theirs].tree[f]
        /\ commits[ours].tree[f] # commits[b].tree[f]
        /\ commits[theirs].tree[f] # commits[b].tree[f]

NoNewCommit(p) == Len(commits) = pre[p].ncommits
RefsUnchanged(p) == refs = pre[p].refs

-----------------------------------------------------------------------------
(* C1: a merge whose trunk tip and ghost tip conflict returns the          *)
(* merge-conflict error; the trunk still points at the same commit, no     *)
(* commit was added, the ghost branch still exists at the same commit, and *)
(* HEAD is on the trunk.                                                   *)
C1_ConflictAborts ==
    \A p \in Procs :
        (/\ Returned(p, "merge")
         /\ PreHasTrunk(p)
         /\ PreBranch(p)
         /\ TipsConflict(PreTrunkTip(p), PreBranchTip(p)))
        => /\ result[p] = Err("MergeConflict")
           /\ PreTrunk(p) \in DOMAIN refs
           /\ refs[PreTrunk(p)] = PreTrunkTip(p)
           /\ NoNewCommit(p)
           /\ arg[p] \in DOMAIN refs
           /\ refs[arg[p]] = PreBranchTip(p)
           /\ RefsUnchanged(p)
           /\ head = PreTrunk(p)

C1_Witness ==
    \E p \in Procs :
        /\ Returned(p, "merge")
        /\ PreHasTrunk(p)
        /\ PreBranch(p)
        /\ IsGhost(arg[p])
        /\ TipsConflict(PreTrunkTip(p), PreBranchTip(p))
        /\ result[p] = Err("MergeConflict")
        /\ pre[p].head # PreTrunk(p)

(* C2: a merge that returns an error leaves the trunk reference at the     *)
(* commit it pointed at when the call started, for every argument.         *)
C2_ErrorLeavesTrunk ==
    \A p \in Procs :
        (Returned(p, "merge") /\ ~result[p].ok)
        => \A n \in {"main", "master"} :
              /\ n \in DOMAIN refs <=> n \in DOMAIN pre[p].refs
              /\ n \in DOMAIN refs => refs[n] = pre[p].refs[n]

(* C3: after a successful merge the trunk tip is a new commit with exactly *)
(* two parents: first the trunk tip as it was, second the ghost tip.       *)
C3_ParentOrder ==
    \A p \in Procs :
        (Returned(p, "merge") /\ result[p].ok)
        => /\ PreHasTrunk(p) /\ PreBranch(p)
           /\ refs[PreTrunk(p)] > pre[p].ncommits
           /\ Len(commits[refs[PreTrunk(p)]].parents) = 2
           /\ commits[refs[PreTrunk(p)]].parents[1] = PreTrunkTip(p)
           /\ commits[refs[PreTrunk(p)]].parents[2] = PreBranchTip(p)

C3_Witness ==
    \E p \in Procs :
        /\ Returned(p, "merge") /\ result[p].ok
        /\ IsGhost(arg[p])
        /\ PreTrunkTip(p) # PreBranchTip(p)
        /\ PreTrunkTip(p) \notin Ancestors(PreBranchTip(p))
        /\ commits[refs[PreTrunk(p)]].parents = <<PreTrunkTip(p), PreBranchTip(p)>>

(* C4: a merge that returns success has removed the ghost branch, and a    *)
(* step that removes a branch is taken by a merge whose commit (second     *)
(* parent: the tip of the removed branch) is already the trunk tip.        *)
C4_DeleteAfterCommit ==
    [][\A p \in Procs :
          /\ (pc[p] # "done" /\ pc'[p] = "done" /\ op'[p] = "merge" /\ result'[p].ok)
             => arg'[p] \notin DOMAIN refs'
          /\ (pc[p] = "m_delete" /\ pc'[p] = "done" /\ DOMAIN refs' # DOMAIN refs)
             => /\ DOMAIN refs \ DOMAIN refs' = {arg[p]}
                /\ refs[PreTrunk(p)] > pre[p].ncommits
                /\ Len(commits[refs[PreTrunk(p)]].parents) = 2
                /\ commits[refs[PreTrunk(p)]].parents[2] = refs[arg[p]]
                /\ refs'[PreTrunk(p)] = refs[PreTrunk(p)]
      ]_vars

C4_Witness ==
    \E p \in Procs :
        /\ Returned(p, "merge") /\ result[p].ok
        /\ IsGhost(arg[p])
        /\ PreBranch(p)
        /\ arg[p] \notin DOMAIN refs
        /\ commits[refs[PreTrunk(p)]].parents[2] = PreBranchTip(p)

(* C5: merging a name that resolves to no revision fails with the          *)
(* revision-not-found error, not the merge-conflict error; no commit is    *)
(* added and no branch reference changes.                                  *)
C5_UnknownGhost ==
    \A p \in Procs :
        (Returned(p, "merge") /\ PreUnresolvable(p))
        => /\ result[p] = Err("NotFound")
           /\ NoNewCommit(p)
           /\ RefsUnchanged(p)

C5_Witness ==
    \E p \in Procs :
        /\ Returned(p, "merge") /\ PreUnresolvable(p)
        /\ PreHasTrunk(p)
        /\ result[p] = Err("NotFound")
        /\ head # pre[p].head

(* C6: the trunk of a merge is main when main exists, master when only     *)
(* master exists; with neither the merge fails with the not-found error    *)
(* and HEAD, the working tree, the commits and every reference are as      *)
(* they were.                                                              *)
C6_TrunkResolution ==
    \A p \in Procs :
        Returned(p, "merge")
        => /\ "main" \in DOMAIN pre[p].refs
              => head = "main" /\ loc[p].main = pre[p].refs["main"]
           /\ ("main" \notin DOMAIN pre[p].refs /\ "master" \in DOMAIN pre[p].refs)
              => head = "master" /\ loc[p].main = pre[p].refs["master"]
           /\ ~PreHasTrunk(p)
              => /\ result[p] = Err("NotFound")
                 /\ head = pre[p].head
                 /\ worktree = pre[p].worktree
                 /\ NoNewCommit(p)
                 /\ RefsUnchanged(p)

C6_WitnessBoth ==
    \E p \in Procs :
        /\ Returned(p, "merge")
        /\ {"main", "master"} \subseteq DOMAIN pre[p].refs
        /\ pre[p].head = "master"
        /\ head = "main"

(* C7: a create for work item w that returns name n: n is                  *)
(* "ghost/" + w + "/" + the seconds read, branch n is new and points at    *)
(* the commit HEAD resolved to when the call started, HEAD names n, and    *)
(* every other branch is as it was.                                        *)
C7_CreateSuccess ==
    \A p \in Procs :
        (Returned(p, "create") /\ result[p].ok)
        => /\ result[p].val = "ghost/" \o arg[p] \o "/" \o ToString(now)
           /\ result[p].val \notin DOMAIN pre[p].refs
           /\ DOMAIN refs = DOMAIN pre[p].refs \cup {result[p].val}
           /\ refs[result[p].val] = pre[p].refs[pre[p].head]
           /\ head = result[p].val
           /\ \A n \in DOMAIN pre[p].refs : refs[n] = pre[p].refs[n]

C7_Witness ==
    \E p \in Procs :
        /\ Returned(p, "create") /\ result[p].ok
        /\ result[p].val = "ghost/A/2"
        /\ "ghost/A/1" \in DOMAIN refs
        /\ refs["ghost/A/2"] # refs["ghost/A/1"]

(* C8: a create whose derived name is already a branch fails with the      *)
(* branch-exists error; that branch, every other reference, HEAD and the   *)
(* working tree are as they were.                                          *)
C8_NameCollision ==
    \A p \in Procs :
        (/\ Returned(p, "create")
         /\ ("ghost/" \o arg[p] \o "/" \o ToString(now)) \in DOMAIN pre[p].refs)
        => /\ result[p] = Err("Exists")
           /\ RefsUnchanged(p)
           /\ head = pre[p].head
           /\ worktree = pre[p].worktree
           /\ NoNewCommit(p)

C8_Witness ==
    \E p \in Procs :
        /\ Returned(p, "create")
        /\ ("ghost/" \o arg[p] \o "/" \o ToString(now)) \in DOMAIN pre[p].refs
        /\ result[p] = Err("Exists")
        /\ refs["ghost/" \o arg[p] \o "/" \o ToString(now)] # refs[head]

(* C10: list_ghost_branches returns exactly the local branches whose name  *)
(* starts with "ghost/", and changes nothing in the repository.            *)
C10_ListGhosts ==
    \A p \in Procs :
        Returned(p, "list")
        => /\ result[p].ok
           /\ result[p].val = {n \in DOMAIN refs :
                                 Len(n) >= 6 /\ SubSeq(n, 1, 6) = "ghost/"}
           /\ RefsUnchanged(p)
           /\ NoNewCommit(p)
           /\ head = pre[p].head
           /\ worktree = pre[p].worktree

C10_Witness ==
    \E p \in Procs :
        /\ Returned(p, "list")
        /\ DOMAIN refs = {"main", "ghost/A/1", "feature/x", "ghost/A/2"}
        /\ result[p].val = {"ghost/A/1", "ghost/A/2"}

(* C9: no two of create-ghost-branch and merge-to-trunk are at the same    *)
(* time between their first access to the repository and their return.     *)
InFlight(p) ==
    /\ op[p] \in {"create", "merge"}
    /\ pc[p] \notin {"idle", "c_head", "m_resolve", "done"}

C9_Serialized == Cardinality({p \in Procs : InFlight(p)}) <= 1

(* C11: the name create builds for any work item and time is a ghost name,  *)
(* "main" and "feature/x" are not, and every step that adds a branch       *)
(* reference adds one whose name begins with "ghost/".                     *)
C11_GhostNaming ==
    [][/\ \A w \in CardIds, t \in 1..MaxTime : IsGhost(GhostName(w, t))
       /\ ~IsGhost("main") /\ ~IsGhost("feature/x")
       /\ \A n \in DOMAIN refs' \ DOMAIN refs :
             Len(n) >= 6 /\ SubSeq(n, 1, 6) = "ghost/"
      ]_vars

C11_Witness ==
    \E p \in Procs :
        /\ Returned(p, "create") /\ result[p].ok
        /\ pre[p].head = "feature/x"
        /\ result[p].val \in DOMAIN refs \ DOMAIN pre[p].refs
        /\ IsGhost(result[p].val)
        /\ DOMAIN refs \ {result[p].val} = {"master", "feature/x"}

(* C12: a diff of two revisions that resolve to the same tree is the empty  *)
(* patch, in either argument order; so is the diff of a ghost branch just  *)
(* created on the trunk against the trunk.                                 *)
C12_SameTreeEmptyDiff ==
    \A p \in Procs :
        (/\ Returned(p, "diff")
         /\ Revparse(arg[p]) # NoCommit
         /\ Revparse(loc[p].branch2) # NoCommit
         /\ commits[Revparse(arg[p])].tree = commits[Revparse(loc[p].branch2)].tree)
        => result[p] = Ok("")

\* the ghost branch is HEAD and has the trunk's commit, as create left it;
\* the ghost branch is the second argument
C12_Witness ==
    \E p \in Procs :
        /\ Returned(p, "diff")
        /\ arg[p] = "main" /\ IsGhost(loc[p].branch2)
        /\ loc[p].branch2 \in DOMAIN refs
        /\ head = loc[p].branch2
        /\ refs[loc[p].branch2] = refs["main"]
        /\ Len(commits) = 1
        /\ result[p] = Ok("")

(* C13: in a repository with a trunk (main, or master when there is no     *)
(* main), a ghost branch points at the tip of the trunk when create        *)
(* returns it.                                                             *)
C13_TargetIsTrunk ==
    \A p \in Procs :
        (Returned(p, "create") /\ result[p].ok /\ PreHasTrunk(p))
        => refs[result[p].val] = PreTrunkTip(p)

(* C14: a merge attempt goes Start, TrunkCheckedOut, MergeComputed, then   *)
(* Committed or ConflictAborted, in that order: the merge is computed with *)
(* HEAD on the trunk, a commit is added only for a merge computed without  *)
(* conflict, a conflict-aborted attempt changes nothing in the repository  *)
(* from the abort on, and every attempt reaches its return.                *)
MergeState(p) ==
    IF op[p] # "merge" THEN "None"
    ELSE IF pc[p] \in {"m_resolve", "m_checkout", "m_probe", "m_sethead"} THEN "Start"
    ELSE IF pc[p] \in {"m_ghost", "m_head", "m_merge"} THEN "TrunkCheckedOut"
    ELSE IF pc[p] = "m_commit" THEN "MergeComputed"
    ELSE IF pc[p] \in {"m_find", "m_delete"} THEN "Committed"
    ELSE IF result[p].ok THEN "Committed"
    ELSE IF result[p] = Err("MergeConflict") THEN "ConflictAborted"
    ELSE "Failed"

\* the step of the state machine, the conflict being found by the step that
\* computes the merge; an error may end the attempt in any state
MergeOrder ==
    {<<"None", "Start">>, <<"Start", "TrunkCheckedOut">>,
     <<"TrunkCheckedOut", "MergeComputed">>, <<"TrunkCheckedOut", "ConflictAborted">>,
     <<"MergeComputed", "Committed">>,
     <<"Start", "Failed">>, <<"TrunkCheckedOut", "Failed">>,
     <<"MergeComputed", "Failed">>, <<"Committed", "Failed">>,
     <<"Committed", "None">>, <<"ConflictAborted", "None">>, <<"Failed", "None">>}

C14_MergeStateMachine ==
    /\ [][\A p \in Procs :
             /\ MergeState(p)' # MergeState(p)
                => <<MergeState(p), MergeState(p)'>> \in MergeOrder
             /\ (MergeState(p) = "TrunkCheckedOut" /\ MergeState(p)' # "Failed")
                => /\ head \in {"main", "master"}
                   /\ head = PreTrunk(p)
                   /\ head' = head
             /\ (op[p] = "merge" /\ Len(commits') > Len(commits))
                => /\ MergeState(p) = "MergeComputed"
                   /\ ~TipsConflict(loc[p].head_commit, loc[p].ghost_commit)
                   /\ commits'[Len(commits')].tree = loc[p].tree
             /\ (MergeState(p)' = "ConflictAborted")
                => <<refs', commits', head', worktree'>> = <<refs, commits, head, worktree>>
       ]_vars
    /\ \A p \in SeqProcs : (MergeState(p) = "Start") ~> (pc[p] = "done")

C14_Witness ==
    \E p \in Procs :
        /\ Returned(p, "merge")
        /\ MergeState(p) = "ConflictAborted"
        /\ IsGhost(arg[p])
        /\ IsGhost(pre[p].head)
        /\ head = "master"
        /\ RefsUnchanged(p) /\ NoNewCommit(p)

(* C15: HEAD always names a branch that exists; a step that removes a      *)
(* branch is taken with HEAD on the trunk and removes another branch than  *)
(* the one HEAD names; a delete of the branch HEAD names fails and removes *)
(* nothing.                                                                *)
C15_HeadNeverDangles ==
    /\ [](head \in DOMAIN refs)
    /\ [][\A p \in Procs :
             /\ (DOMAIN refs \ DOMAIN refs' # {})
                => /\ head \notin DOMAIN refs \ DOMAIN refs'
                   /\ head \in {"main", "master"}
                   /\ head' = head
             /\ (pc[p] = "m_delete" /\ pc'[p] # pc[p] /\ arg[p] = head)
                => /\ refs' = refs
                   /\ result'[p] = Err("IsHead")
       ]_vars

\* the merge was asked to merge the trunk itself: the delete was refused
C15_Witness ==
    \E p \in Procs :
        /\ Returned(p, "merge")
        /\ arg[p] = head
        /\ result[p] = Err("IsHead")
        /\ head \in DOMAIN refs

(* C16: whenever no call is in progress the working tree is the tree of    *)
(* the commit HEAD points at; after a successful merge it holds the merged *)
(* content of the new trunk tip.                                           *)
C16_WorktreeMatchesHead ==
    \A p \in Procs :
        /\ AllIdle => worktree = commits[refs[head]].tree
        /\ (Returned(p, "merge") /\ result[p].ok)
           => worktree = commits[refs[PreTrunk(p)]].tree

(* C17: with a create running beside it, the step of a merge that writes   *)
(* the merge commit takes the trunk tip as first parent and moves the      *)
(* trunk to the new commit, and no other branch.                           *)
C17_MergeCommitsOnTrunk ==
    [][\A p \in Procs :
          (/\ op[p] = "merge" /\ pc[p] = "m_commit"
           /\ \E q \in Procs \ {p} : op[q] = "create"
           /\ Len(commits') > Len(commits))
          => /\ commits'[Len(commits')].parents[1] = refs[PreTrunk(p)]
             /\ refs'[PreTrunk(p)] = Len(commits')
             /\ \A n \in DOMAIN refs \ {PreTrunk(p)} : refs'[n] = refs[n]
      ]_vars

(* C18: with two merges running side by side and no other call, a merge    *)
(* that has returned success has its ghost tip among the ancestors of the  *)
(* trunk tip from then on, and a step that removes a branch removes one    *)
(* whose tip is an ancestor of the trunk tip.                              *)
OnlyMerges == \A q \in Procs : op[q] \in {"merge", "none"}

C18_NoLostMerge ==
    /\ [](\A p \in Procs :
            (OnlyMerges /\ Returned(p, "merge") /\ result[p].ok)
            => /\ "main" \in DOMAIN refs
               /\ PreBranchTip(p) \in Ancestors(refs["main"]))
    /\ [][OnlyMerges
           => \A n \in DOMAIN refs \ DOMAIN refs' :
                 /\ "main" \in DOMAIN refs'
                 /\ refs[n] \in Ancestors(refs'["main"])
       ]_vars

\* both merges are past their read of HEAD when the first commits; the
\* other then finds the trunk moved
C18_Witness ==
    \E p \in Procs, q \in Procs :
        /\ Returned(p, "merge") /\ result[p].ok
        /\ Returned(q, "merge") /\ result[q] = Err("Modified")
        /\ IsGhost(arg[p]) /\ IsGhost(arg[q]) /\ arg[p] # arg[q]
        /\ PreBranchTip(p) # pre[q].refs[arg[q]]
        /\ pre[q].ncommits = pre[p].ncommits
        /\ arg[q] \in DOMAIN refs

(* C19: a merge removes no branch whose name does not start with "ghost/": *)
(* the branches without that prefix are the same after the call as        *)
(* before, for every argument.                                             *)
C19_OnlyGhostsDeleted ==
    \A p \in Procs :
        Returned(p, "merge")
        => \A n \in DOMAIN pre[p].refs :
              ~(Len(n) >= 6 /\ SubSeq(n, 1, 6) = "ghost/") => n \in DOMAIN refs

(* C20: a create that returns an error, at whichever step, leaves the      *)
(* branch references and HEAD as they were when it was called.             *)
C20_CreateAllOrNothing ==
    \A p \in Procs :
        (Returned(p, "create") /\ ~result[p].ok)
        => /\ refs = pre[p].refs
           /\ head = pre[p].head

(* C21: GhostMode and the commands are the same program: from every state  *)
(* and for every argument, a step a process takes is the call, or a        *)
(* statement, of create_ghost_branch, merge_to_main or get_diff exactly    *)
(* when it is the call, or the statement at the same place, of the command *)
(* create_ghost_branch, merge_ghost_branch or get_branch_diff (the same    *)
(* change of the repository, the same error or value returned); and        *)
(* list_ghost_branches returns exactly the names of the entries            *)
(* get_branches marks is_ghost.                                            *)
GhostNamesOf(branches) == {b.name : b \in {x \in branches : x.is_ghost}}

C21_SameProgram ==
    [][\A p \in Procs :
          /\ (pc[p] = "idle" /\ pc'[p] # "idle")
             => /\ CreateCall(p, arg'[p]) <=> CmdCreateCall(p, arg'[p])
                /\ MergeCall(p, arg'[p]) <=> CmdMergeCall(p, arg'[p])
                /\ DiffCall(p, arg'[p], loc'[p].branch2)
                   <=> CmdDiffCall(p, arg'[p], loc'[p].branch2)
          /\ (pc[p] \notin {"idle", "done"} /\ pc'[p] # pc[p])
             => /\ CHead(p) <=> CmdCHead(p)
                /\ CName(p) <=> CmdCName(p)
                /\ CBranch(p) <=> CmdCBranch(p)
                /\ CRevparse(p) <=> CmdCRevparse(p)
                /\ CCheckout(p) <=> CmdCCheckout(p)
                /\ CSetHead(p) <=> CmdCSetHead(p)
                /\ MResolve(p) <=> CmdMResolve(p)
                /\ MCheckout(p) <=> CmdMCheckout(p)
                /\ MProbe(p) <=> CmdMProbe(p)
                /\ MSetHead(p) <=> CmdMSetHead(p)
                /\ MGhost(p) <=> CmdMGhost(p)
                /\ MHead(p) <=> CmdMHead(p)
                /\ MMerge(p) <=> CmdMMerge(p)
                /\ MCommit(p) <=> CmdMCommit(p)
                /\ MFind(p) <=> CmdMFind(p)
                /\ MDelete(p) <=> CmdMDelete(p)
                /\ DTree1(p) <=> CmdDTree1(p)
                /\ DTree2(p) <=> CmdDTree2(p)
                /\ DDiff(p) <=> CmdDDiff(p)
          /\ LList(p)
             => result'[p].val = GhostNamesOf({GitBranch(n) : n \in DOMAIN refs})
          /\ GetBranches(p)
             => /\ result'[p].ok
                /\ GhostNamesOf(result'[p].val) = GhostBranches
                /\ repo' = repo
      ]_vars

\* get_branches has returned, with ghost branches and others, on a
\* repository in which a merge has been made
C21_Witness ==
    \E p \in Procs :
        /\ Returned(p, "branches")
        /\ GhostNamesOf(result[p].val) = {"ghost/A/2"}
        /\ {b.name : b \in result[p].val} = {"main", "feature/x", "ghost/A/2"}
        /\ \E c \in CommitIds : Len(commits[c].parents) = 2
        /\ \E b \in result[p].val : b.is_head /\ b.is_ghost

====
